---- MODULE Spec2Model ----
(***************************************************************************)
(* Syncra: the playlist conversion thread of src/Syncra/main.py.           *)
(*                                                                         *)
(* PlaylistConverterThread.run fetches the track list of a source playlist *)
(* (Spotify, Deezer or Tidal), resolves every track against the Plex       *)
(* library with find_best_match and creates a Plex playlist from the       *)
(* matches.  Two specifications are given:                                 *)
(*   Spec      - one conversion run, from run() to its terminal signal;    *)
(*   SpecMatch - find_best_match applied to one track and one candidate    *)
(*               sequence returned by the library search.                  *)
(***************************************************************************)
EXTENDS Integers, Sequences, FiniteSets, TLC

\* ------------------------------------------------------------------------
\* Bounds of the model
\* ------------------------------------------------------------------------
\* longest source playlist of a run
MaxTracks == 2
\* longest candidate sequence handed to find_best_match in SpecMatch
MaxCands == 2
\* longest track line handed to parse_track_info in SpecParse
MaxLine == 9
\* most lines of a local playlist file in SpecLocal
MaxFileLines == 3
\* last reading of the clock in SpecToken
MaxTime == 5

\* ------------------------------------------------------------------------
\* Strings are sequences of one-character strings
\* ------------------------------------------------------------------------
\* the literal ' - ' of the f-strings and of parse_track_info
SEP == <<" ", "-", " ">>

SepAt(s, k) ==
    /\ k + 2 <= Len(s)
    /\ SubSeq(s, k, k + 2) = SEP

\* index of the first occurrence of ' - ' in s, 0 when there is none
FirstSep(s) ==
    IF \E k \in 1..Len(s) : SepAt(s, k)
    THEN CHOOSE k \in 1..Len(s) : SepAt(s, k) /\ \A j \in 1..(k - 1) : ~SepAt(s, j)
    ELSE 0

RECURSIVE lstrip(_)
lstrip(s) == IF s # <<>> /\ Head(s) = " " THEN lstrip(Tail(s)) ELSE s

RECURSIVE rstrip(_)
rstrip(s) ==
    IF s # <<>> /\ s[Len(s)] = " " THEN rstrip(SubSeq(s, 1, Len(s) - 1)) ELSE s

\* str.strip()
strip(s) == rstrip(lstrip(s))

\* index of the last occurrence of ' - ' in s, 0 when there is none
LastSep(s) ==
    IF \E k \in 1..Len(s) : SepAt(s, k)
    THEN CHOOSE k \in 1..Len(s) : SepAt(s, k) /\ \A j \in (k + 1)..Len(s) : ~SepAt(s, j)
    ELSE 0

\* parse_track_info with rsplit in place of split: the last ' - ' decides
parse_track_info_rsplit(track) ==
    LET k == LastSep(track) IN
    IF k > 0
    THEN <<strip(SubSeq(track, 1, k - 1)), strip(SubSeq(track, k + 3, Len(track)))>>
    ELSE <<strip(track), <<>> >>

\* parse_track_info: split on the first ' - ', strip both parts
parse_track_info(track) ==
    LET k == FirstSep(track) IN
    IF k > 0
    THEN <<strip(SubSeq(track, 1, k - 1)), strip(SubSeq(track, k + 3, Len(track)))>>
    ELSE <<strip(track), <<>> >>

\* f"{title} - {artist}" of the provider adapters
FormatTrack(title, artist) == title \o SEP \o artist

\* ------------------------------------------------------------------------
\* Candidates returned by library_section.searchTracks
\* ------------------------------------------------------------------------
\* fuzz.token_set_ratio values a candidate's title can have against the track
TitleScores == {0, 97, 100}
\* fuzz.token_set_ratio values of the track's artist against a candidate field
ArtistSims == {0, 100}

\* A candidate: whether plex_track.title is set and its similarity to the
\* track's title; whether plex_track.originalTitle is populated; what
\* plex_track.artist() does ("none": returns None, "some": returns an artist,
\* "error": the lookup raises); the similarity of the track's artist to the
\* field the code compares it with.
CandPool ==
    { c \in [title : BOOLEAN, titleSim : TitleScores, originalTitle : BOOLEAN,
             artist : {"none", "some", "error"}, artistSim : ArtistSims] :
        /\ (~c.title => c.titleSim = 0)
        /\ ((~c.originalTitle /\ c.artist # "some") => c.artistSim = 0) }

SeqsUpTo(S, n) == UNION { [1..m -> S] : m \in 0..n }

\* what searchTracks returns inside a run: no candidate or one candidate
\* (SpecMatch covers the longer candidate sequences)
SearchResults == {<<>>} \cup { <<c>> : c \in CandPool }

\* fuzz.token_set_ratio(s1, s2): 0 when either processed string is empty,
\* otherwise the similarity sim of the two strings
token_set_ratio(s1Empty, s2Empty, sim) ==
    IF s1Empty \/ s2Empty THEN 0 ELSE sim

\* line 359-360
title_score(title, c) == token_set_ratio(title = <<>>, ~c.title, c.titleSim)

\* the artist() call of line 366 is reached and raises
artist_lookup_raises(artist, c) ==
    /\ ~(artist # <<>> /\ c.originalTitle)
    /\ c.artist = "error"

\* lines 363-367 without the originalTitle branch
artist_score_no_original(artist, c) ==
    IF c.artist = "some"
    THEN token_set_ratio(artist = <<>>, FALSE, c.artistSim)
    ELSE 0

\* lines 363-367
artist_score(artist, c) ==
    IF artist # <<>> /\ c.originalTitle
    THEN token_set_ratio(FALSE, FALSE, c.artistSim)
    ELSE IF c.artist = "some"
         THEN token_set_ratio(artist = <<>>, FALSE, c.artistSim)
         ELSE 0

\* Sign of the deviation of the IEEE double (t * 0.7) + (a * 0.3)
\* from the decimal (7t + 3a)/10, for the score values of the model:
\* 97*0.7 = 67.89999999999999, so every sum with titleScore 97 falls just
\* below its decimal value; the sums with 0 and 100 are exact.
FloatErr(t, a) == IF t = 97 THEN -1 ELSE 0

\* line 370 with the two weights exchanged
combined_score_swapped(t, a) == 10 * (t * 3 + a * 7) + FloatErr(t, a)

\* line 370, in units of 1/100 (70.0 is 7000)
combined_score(t, a) == 10 * (t * 7 + a * 3) + FloatErr(t, a)

\* line 376
AcceptThreshold == 7000

\* line 372 with >= in place of >: the last maximal candidate would win
better_or_equal(combined, best_score) == combined >= best_score

\* line 372: a candidate replaces the tracked best
better(combined, best_score) == combined > best_score

\* lines 354-374: the scoring loop from candidate k on.  "loop_raised" is an
\* exception of plex_track.artist() escaping the loop.
RECURSIVE score_loop(_, _, _, _, _, _)
score_loop(title, artist, all_tracks, k, best_match, best_score) ==
    IF k > Len(all_tracks)
    THEN [loop_raised |-> FALSE, best_match |-> best_match, best_score |-> best_score]
    ELSE LET c == all_tracks[k]
             combined == combined_score(title_score(title, c), artist_score(artist, c))
         IN  IF artist_lookup_raises(artist, c)
             THEN [loop_raised |-> TRUE, best_match |-> best_match,
                   best_score |-> best_score]
             ELSE IF better(combined, best_score)
                  THEN score_loop(title, artist, all_tracks, k + 1, k, combined)
                  ELSE score_loop(title, artist, all_tracks, k + 1, best_match, best_score)

\* line 377: the log line of an accepted match evaluates
\* best_match.title and best_match.originalTitle or best_match.artist().title;
\* best_match is an index into all_tracks, 0 for None
log_line_raises(all_tracks, best_match) ==
    \/ best_match = 0
    \/ /\ ~all_tracks[best_match].originalTitle
       /\ all_tracks[best_match].artist # "some"

\* lines 376-381: the decision after the loop
decide(all_tracks, loop) ==
    IF loop.loop_raised
    THEN [outcome |-> "raised", match |-> 0, best_match |-> loop.best_match,
          best_score |-> loop.best_score, loop_done |-> FALSE]
    ELSE IF loop.best_score >= AcceptThreshold
         THEN IF log_line_raises(all_tracks, loop.best_match)
              THEN [outcome |-> "raised", match |-> 0, best_match |-> loop.best_match,
                    best_score |-> loop.best_score, loop_done |-> TRUE]
              ELSE [outcome |-> "matched", match |-> loop.best_match,
                    best_match |-> loop.best_match,
                    best_score |-> loop.best_score, loop_done |-> TRUE]
         ELSE [outcome |-> "unmatched", match |-> 0, best_match |-> loop.best_match,
               best_score |-> loop.best_score, loop_done |-> TRUE]

\* find_best_match taking all_tracks[0] as the initial best: an empty search
\* result would raise IndexError
find_best_match_first_default(track, all_tracks, search_raises) ==
    IF search_raises \/ all_tracks = <<>>
    THEN [outcome |-> "raised", match |-> 0, best_match |-> 0, best_score |-> 0,
          loop_done |-> FALSE]
    ELSE LET parsed == parse_track_info(track) IN
         decide(all_tracks, score_loop(parsed[1], parsed[2], all_tracks, 1, 0, 0))

\* find_best_match(library_section, track) when searchTracks returned
\* all_tracks; search_raises: the searchTracks call itself raises
find_best_match(track, all_tracks, search_raises) ==
    IF search_raises
    THEN [outcome |-> "raised", match |-> 0, best_match |-> 0, best_score |-> 0,
          loop_done |-> FALSE]
    ELSE LET parsed == parse_track_info(track) IN
         decide(all_tracks, score_loop(parsed[1], parsed[2], all_tracks, 1, 0, 0))

\* ------------------------------------------------------------------------
\* State of one conversion run (PlaylistConverterThread) and of one
\* find_best_match call
\* ------------------------------------------------------------------------
VARIABLES
    pc,                 \* position of the thread in run()
    playlist_source,    \* which branch of run() the source URL selects
    items,              \* the provider's track records, in playlist order
    total_number,       \* playlist.nb_tracks / tracks_data['totalNumberOfItems']
    playlist_image_url, \* whether the provider gave an image URL
    pending,            \* Tidal: futures not yet yielded by as_completed
    tracks,             \* the track list built by the fetch stage
    fetch_failed,       \* a get_*_playlist_info call raised
    idx,                \* tracks resolved so far by create_plex_playlist
    plex_tracks,        \* matched library tracks: for the track at source
                        \* position pos, the match-th result of its search
    not_found_tracks,   \* tracks without a match
    last_search,        \* the latest find_best_match call of the run
    searches,           \* number of searchTracks calls
    creates,            \* number of createPlaylist calls
    playlist,           \* the playlist on the Plex server
    thumbnail,          \* outcome of the poster request
    progress,           \* values emitted on progress_update
    signals,            \* finished / error emissions
    error_kind,         \* what the error signal reports
    fbm_track,          \* SpecMatch: the track string
    fbm_cands,          \* SpecMatch: what searchTracks returned
    fbm_out,            \* SpecMatch: the result of find_best_match
    local_file,         \* the lines of the file at a local source path
    local_tracks,       \* SpecLocal: the result of get_local_tracks
    track_in,           \* SpecParse: the track string given to parse_track_info
    rec_in,             \* SpecParse: the provider record track_in was built from
    parsed,             \* SpecParse: the result of parse_track_info
    access_token,       \* SpotifyAnonymousAuth.access_token, 0 for None
    token_expiration,   \* SpotifyAnonymousAuth.token_expiration
    now,                \* time.time()
    token_call          \* SpecToken: the latest get_token call

run_vars == <<pc, playlist_source, items, total_number, playlist_image_url, pending,
              tracks, fetch_failed, idx, plex_tracks, not_found_tracks, last_search,
              searches, creates, playlist, thumbnail, progress, signals, error_kind>>
fbm_vars == <<fbm_track, fbm_cands, fbm_out>>
aux_vars == <<local_file, local_tracks, track_in, rec_in, parsed, access_token,
              token_expiration, now, token_call>>
vars == <<run_vars, fbm_vars, aux_vars>>

Providers == {"spotify", "deezer", "tidal", "other"}

\* Provider records: title and first artist name; ok = FALSE is a record
\* without the fields the adapter reads (a KeyError / TypeError)
RawPool ==
    { [title |-> <<"a">>, artist |-> <<"b">>, ok |-> TRUE],
      [title |-> <<"b">>, artist |-> <<>>, ok |-> TRUE],
      [title |-> <<>>, artist |-> <<"b">>, ok |-> TRUE],
      [title |-> <<"a">>, artist |-> <<"b">>, ok |-> FALSE] }

NoSearch == [empty |-> FALSE, outcome |-> "none", best_score |-> 0, pos |-> 0]
NoOut == [outcome |-> "none", match |-> 0, best_match |-> 0, best_score |-> 0,
          loop_done |-> FALSE]

\* the entry of a track list for the item at position j of the source
TrackOf(j) == [pos |-> j, text |-> FormatTrack(items[j].title, items[j].artist)]

\* the first k tracks of the source, formatted
RECURSIVE FirstTracks(_)
FirstTracks(k) == IF k = 0 THEN <<>> ELSE Append(FirstTracks(k - 1), TrackOf(k))

\* positions of the records the adapter cannot read
BadItems == { j \in 1..Len(items) : ~items[j].ok }
\* number of tracks appended before the first unreadable record raises
FirstBad == CHOOSE j \in BadItems : \A m \in BadItems : j <= m

\* int(n / total * 50), lines 194 and 279; for total < 50 the double
\* n / total * 50 truncates to the same integer as (50 n) div total
fetch_progress(n, total) == (n * 50) \div total

\* line 319 without the offset of the fetch half
match_progress_no_offset(i, total) == ((i + 1) * 50) \div total

\* 50 + int((i + 1) / total_tracks * 50), line 319
match_progress(i, total) == 50 + ((i + 1) * 50) \div total

RECURSIVE ProgressUpTo(_, _)
\* the progress values of a fetch loop that appended k tracks (Deezer)
ProgressUpTo(k, total) ==
    IF k = 0 THEN <<>>
    ELSE Append(ProgressUpTo(k - 1, total), fetch_progress(k, total))

NoTracks == [done |-> FALSE, raised |-> FALSE, tracks |-> <<>>]
NoRec == [provider |-> FALSE, title |-> <<>>, artist |-> <<>>]
NoParse == [done |-> FALSE, title |-> <<>>, artist |-> <<>>]
NoCall == [outcome |-> "none", requested |-> FALSE, returned |-> 0, expires |-> 0]

\* the variables of SpecLocal, SpecParse and SpecToken at rest
LocalIdle == local_tracks = NoTracks
ParseIdle == track_in = <<>> /\ rec_in = NoRec /\ parsed = NoParse
TokenIdle ==
    /\ access_token = 0
    /\ token_expiration = 0
    /\ now = 1
    /\ token_call = NoCall
FbmIdle == fbm_track = <<>> /\ fbm_cands = <<>> /\ fbm_out = NoOut

\* a playlist file: two track lines, a comment line and an empty line
ExampleFile ==
    << FormatTrack(<<"a">>, <<"b">>), <<"b">>, <<"#", "a">>, <<>> >>

RunInit ==
    /\ pc = "run"
    /\ playlist_source \in Providers
    /\ items \in SeqsUpTo(RawPool, MaxTracks)
    /\ playlist_image_url \in BOOLEAN
    /\ (playlist_source = "other" => items = <<>> /\ ~playlist_image_url)
    /\ total_number \in {Len(items), Len(items) + 1}
    /\ (playlist_source # "tidal" => total_number = Len(items))
    /\ pending = {}
    /\ tracks = <<>>
    /\ fetch_failed = FALSE
    /\ idx = 0
    /\ plex_tracks = <<>>
    /\ not_found_tracks = <<>>
    /\ last_search = NoSearch
    /\ searches = 0
    /\ creates = 0
    /\ playlist = [created |-> FALSE, items |-> <<>>]
    /\ thumbnail = "none"
    /\ progress = <<>>
    /\ signals = <<>>
    /\ error_kind = "none"

Init ==
    /\ RunInit
    /\ fbm_track = <<>>
    /\ fbm_cands = <<>>
    /\ fbm_out = NoOut
    /\ local_file \in {<<>>, ExampleFile}
    /\ (playlist_source # "other" => local_file = <<>>)
    /\ LocalIdle
    /\ ParseIdle
    /\ TokenIdle

\* run() swallowing the exception and reporting success
RaiseToRun_swallowed(kind) ==
    /\ pc' = "done"
    /\ signals' = Append(signals, "finished")
    /\ error_kind' = kind

\* run(), lines 174-176: every exception ends the run with the error signal
RaiseToRun(kind) ==
    /\ pc' = "done"
    /\ signals' = Append(signals, "error")
    /\ error_kind' = kind

\* a fetch stage that logs the exception and returns what it has
FetchError_returns_partial(partial) ==
    /\ fetch_failed' = TRUE
    /\ tracks' = partial
    /\ pc' = "create_plex_playlist"
    /\ UNCHANGED <<signals, error_kind>>

\* a get_*_playlist_info call raises after building the list partial:
\* the list is lost with the frame and run() reports the error
FetchError(partial) ==
    /\ fetch_failed' = TRUE
    /\ tracks' = <<>>
    /\ RaiseToRun("fetch")

\* run(), line 170
UnsupportedSource ==
    /\ pc = "run"
    /\ playlist_source = "other"
    /\ FetchError(<<>>)
    /\ UNCHANGED <<playlist_source, items, total_number, playlist_image_url, pending,
                   idx, plex_tracks, not_found_tracks, last_search, searches, creates,
                   playlist, thumbnail, progress, fbm_vars, aux_vars>>

\* get_spotify_playlist_info, lines 209-232
SpotifyFetchOk ==
    /\ pc = "run"
    /\ playlist_source = "spotify"
    /\ BadItems = {}
    /\ tracks' = FirstTracks(Len(items))
    /\ pc' = "create_plex_playlist"
    /\ UNCHANGED <<playlist_source, items, total_number, playlist_image_url, pending,
                   fetch_failed, idx, plex_tracks, not_found_tracks, last_search,
                   searches, creates, playlist, thumbnail, progress, signals,
                   error_kind, fbm_vars, aux_vars>>

\* get_spotify_playlist_info, lines 233-235: the token request or the
\* playlist request fails, or a record cannot be read
SpotifyFetchFails ==
    /\ pc = "run"
    /\ playlist_source = "spotify"
    /\ \E k \in 0..Len(items) :
        /\ \/ k = 0
           \/ BadItems # {} /\ k = FirstBad - 1
        /\ FetchError(FirstTracks(k))
    /\ UNCHANGED <<playlist_source, items, total_number, playlist_image_url, pending,
                   idx, plex_tracks, not_found_tracks, last_search, searches, creates,
                   playlist, thumbnail, progress, fbm_vars, aux_vars>>

\* get_deezer_playlist_info, lines 272-285
DeezerFetchOk ==
    /\ pc = "run"
    /\ playlist_source = "deezer"
    /\ BadItems = {}
    /\ tracks' = FirstTracks(Len(items))
    /\ progress' = progress \o ProgressUpTo(Len(items), total_number)
    /\ pc' = "create_plex_playlist"
    /\ UNCHANGED <<playlist_source, items, total_number, playlist_image_url, pending,
                   fetch_failed, idx, plex_tracks, not_found_tracks, last_search,
                   searches, creates, playlist, thumbnail, signals, error_kind,
                   fbm_vars, aux_vars>>

\* get_deezer_playlist_info raises: the playlist request fails (k = 0), the
\* paged track iteration fails after k tracks, or record k + 1 cannot be read
DeezerFetchFails ==
    /\ pc = "run"
    /\ playlist_source = "deezer"
    /\ \E k \in 0..Len(items) :
        /\ BadItems # {} => k < FirstBad
        /\ progress' = progress \o ProgressUpTo(k, total_number)
        /\ FetchError(FirstTracks(k))
    /\ UNCHANGED <<playlist_source, items, total_number, playlist_image_url, pending,
                   idx, plex_tracks, not_found_tracks, last_search, searches, creates,
                   playlist, thumbnail, fbm_vars, aux_vars>>

\* get_tidal_playlist_info, lines 180-189: both requests succeeded and one
\* process_tidal_track task per item is submitted to the pool
TidalSubmit ==
    /\ pc = "run"
    /\ playlist_source = "tidal"
    /\ pending' = 1..Len(items)
    /\ pc' = "tidal_pool"
    /\ UNCHANGED <<playlist_source, items, total_number, playlist_image_url, tracks,
                   fetch_failed, idx, plex_tracks, not_found_tracks, last_search,
                   searches, creates, playlist, thumbnail, progress, signals,
                   error_kind, fbm_vars, aux_vars>>

\* get_tidal_playlist_info, lines 198-200: a request fails
TidalFetchFails ==
    /\ pc = "run"
    /\ playlist_source = "tidal"
    /\ FetchError(<<>>)
    /\ UNCHANGED <<playlist_source, items, total_number, playlist_image_url, pending,
                   idx, plex_tracks, not_found_tracks, last_search, searches, creates,
                   playlist, thumbnail, progress, fbm_vars, aux_vars>>

\* process_tidal_track, lines 202-207: None for a record it cannot read
process_tidal_track(j) == IF items[j].ok THEN <<TrackOf(j)>> ELSE <<>>

\* the future as_completed yields next: any task of the pool may be the
\* next one to finish
next_completed(j) == j \in pending

\* get_tidal_playlist_info, lines 190-194: one iteration of the
\* as_completed loop
TidalCompleted ==
    /\ pc = "tidal_pool"
    /\ \E j \in 1..Len(items) :
        /\ next_completed(j)
        /\ pending' = pending \ {j}
        /\ tracks' = tracks \o process_tidal_track(j)
        /\ progress' = Append(progress, fetch_progress(Len(tracks'), total_number))
    /\ UNCHANGED <<pc, playlist_source, items, total_number, playlist_image_url,
                   fetch_failed, idx, plex_tracks, not_found_tracks, last_search,
                   searches, creates, playlist, thumbnail, signals, error_kind,
                   fbm_vars, aux_vars>>

\* get_tidal_playlist_info, lines 196-197
TidalReturn ==
    /\ pc = "tidal_pool"
    /\ pending = {}
    /\ pc' = "create_plex_playlist"
    /\ UNCHANGED <<playlist_source, items, total_number, playlist_image_url, pending,
                   tracks, fetch_failed, idx, plex_tracks, not_found_tracks,
                   last_search, searches, creates, playlist, thumbnail, progress,
                   signals, error_kind, fbm_vars, aux_vars>>

\* create_plex_playlist, line 308: the library section is looked up
SectionFound ==
    /\ pc = "create_plex_playlist"
    /\ pc' = "match_loop"
    /\ UNCHANGED <<playlist_source, items, total_number, playlist_image_url, pending,
                   tracks, fetch_failed, idx, plex_tracks, not_found_tracks,
                   last_search, searches, creates, playlist, thumbnail, progress,
                   signals, error_kind, fbm_vars, aux_vars>>

\* create_plex_playlist, line 308 raises (lines 346-348, then run's handler)
SectionLookupFails ==
    /\ pc = "create_plex_playlist"
    /\ RaiseToRun("section")
    /\ UNCHANGED <<playlist_source, items, total_number, playlist_image_url, pending,
                   tracks, fetch_failed, idx, plex_tracks, not_found_tracks,
                   last_search, searches, creates, playlist, thumbnail, progress,
                   fbm_vars, aux_vars>>

\* an exception of find_best_match that no handler catches: the thread ends
\* without a signal
MatchError_escapes ==
    /\ pc' = "done"
    /\ error_kind' = "match"
    /\ UNCHANGED signals
    /\ UNCHANGED <<idx, plex_tracks, not_found_tracks, progress>>

\* create_plex_playlist, lines 346-348: an exception of find_best_match is
\* re-raised as ValueError and ends the run
MatchError ==
    /\ RaiseToRun("match")
    /\ UNCHANGED <<idx, plex_tracks, not_found_tracks, progress>>

\* create_plex_playlist, lines 313-319: one iteration of the loop over
\* tracks; the library search returns all_tracks or raises
MatchTrack ==
    /\ pc = "match_loop"
    /\ idx < Len(tracks)
    /\ \E all_tracks \in SearchResults, search_raises \in BOOLEAN :
        LET track == tracks[idx + 1]
            r == find_best_match(track.text, all_tracks, search_raises)
        IN  /\ search_raises => all_tracks = <<>>
            /\ searches' = searches + 1
            /\ last_search' = [empty |-> ~search_raises /\ all_tracks = <<>>,
                               outcome |-> r.outcome, best_score |-> r.best_score,
                               pos |-> track.pos]
            /\ IF r.outcome = "raised"
               THEN MatchError
               ELSE /\ IF r.outcome = "matched"
                       THEN /\ plex_tracks' = Append(plex_tracks,
                                   [pos |-> track.pos, match |-> r.match])
                            /\ UNCHANGED not_found_tracks
                       ELSE /\ not_found_tracks' = Append(not_found_tracks, track)
                            /\ UNCHANGED plex_tracks
                    /\ progress' = Append(progress, match_progress(idx, Len(tracks)))
                    /\ idx' = idx + 1
                    /\ UNCHANGED <<pc, signals, error_kind>>
    /\ UNCHANGED <<playlist_source, items, total_number, playlist_image_url, pending,
                   tracks, fetch_failed, creates, playlist, thumbnail, fbm_vars, aux_vars>>

\* create_plex_playlist without the test of line 321: an empty playlist
NoMatches_creates_empty ==
    /\ creates' = creates + 1
    /\ playlist' = [created |-> TRUE, items |-> <<>>]
    /\ pc' = "done"
    /\ signals' = Append(signals, "finished")
    /\ UNCHANGED error_kind

\* create_plex_playlist, lines 344-348: no track matched
NoMatches ==
    /\ RaiseToRun("no_matches")
    /\ UNCHANGED <<creates, playlist>>

\* create_plex_playlist, lines 321 and 344-345 after the loop
MaterializeEmpty ==
    /\ pc = "match_loop"
    /\ idx = Len(tracks)
    /\ plex_tracks = <<>>
    /\ NoMatches
    /\ UNCHANGED <<playlist_source, items, total_number, playlist_image_url, pending,
                   tracks, fetch_failed, idx, plex_tracks, not_found_tracks,
                   last_search, searches, thumbnail, progress, fbm_vars, aux_vars>>

\* line 322 handing the matches to createPlaylist last match first
CreatePlaylist_reversed ==
    /\ pc = "match_loop"
    /\ idx = Len(tracks)
    /\ plex_tracks # <<>>
    /\ creates' = creates + 1
    /\ playlist' = [created |-> TRUE,
                    items |-> [n \in 1..Len(plex_tracks) |->
                                 plex_tracks[Len(plex_tracks) + 1 - n]]]
    /\ pc' = "thumbnail"
    /\ UNCHANGED <<playlist_source, items, total_number, playlist_image_url, pending,
                   tracks, fetch_failed, idx, plex_tracks, not_found_tracks,
                   last_search, searches, thumbnail, progress, signals, error_kind,
                   fbm_vars, aux_vars>>

\* create_plex_playlist, line 322: createPlaylist succeeds
CreatePlaylist ==
    /\ pc = "match_loop"
    /\ idx = Len(tracks)
    /\ plex_tracks # <<>>
    /\ creates' = creates + 1
    /\ playlist' = [created |-> TRUE, items |-> plex_tracks]
    /\ pc' = "thumbnail"
    /\ UNCHANGED <<playlist_source, items, total_number, playlist_image_url, pending,
                   tracks, fetch_failed, idx, plex_tracks, not_found_tracks,
                   last_search, searches, thumbnail, progress, signals, error_kind,
                   fbm_vars, aux_vars>>

\* line 322 raises and the call is made again instead of ending the run
CreatePlaylistFails_retried ==
    /\ pc = "match_loop"
    /\ idx = Len(tracks)
    /\ plex_tracks # <<>>
    /\ creates < 2
    /\ creates' = creates + 1
    /\ UNCHANGED <<pc, signals, error_kind>>
    /\ UNCHANGED <<playlist_source, items, total_number, playlist_image_url, pending,
                   tracks, fetch_failed, idx, plex_tracks, not_found_tracks,
                   last_search, searches, playlist, thumbnail, progress, fbm_vars, aux_vars>>

\* create_plex_playlist, line 322 raises: the server created nothing
CreatePlaylistFails ==
    /\ pc = "match_loop"
    /\ idx = Len(tracks)
    /\ plex_tracks # <<>>
    /\ creates' = creates + 1
    /\ RaiseToRun("create")
    /\ UNCHANGED <<playlist_source, items, total_number, playlist_image_url, pending,
                   tracks, fetch_failed, idx, plex_tracks, not_found_tracks,
                   last_search, searches, playlist, thumbnail, progress, fbm_vars, aux_vars>>

\* create_plex_playlist returns and run() emits finished, lines 339-343, 173
Finished ==
    /\ pc' = "done"
    /\ signals' = Append(signals, "finished")
    /\ UNCHANGED error_kind

\* the thumbnail step without its own try/except: the exception reaches run()
ThumbnailFailed_raises ==
    /\ thumbnail' = "failed"
    /\ RaiseToRun("thumbnail")

\* lines 336-337: an exception of the thumbnail step is logged
ThumbnailFailed ==
    /\ thumbnail' = "failed"
    /\ Finished

\* create_plex_playlist, lines 325-337: the poster request, when the
\* provider gave an image URL
SetThumbnail ==
    /\ pc = "thumbnail"
    /\ IF playlist_image_url
       THEN \/ thumbnail' = "set" /\ Finished
            \/ ThumbnailFailed
       ELSE thumbnail' = "none" /\ Finished
    /\ UNCHANGED <<playlist_source, items, total_number, playlist_image_url, pending,
                   tracks, fetch_failed, idx, plex_tracks, not_found_tracks,
                   last_search, searches, creates, playlist, progress, fbm_vars, aux_vars>>

Next ==
    \/ UnsupportedSource
    \/ SpotifyFetchOk
    \/ SpotifyFetchFails
    \/ DeezerFetchOk
    \/ DeezerFetchFails
    \/ TidalSubmit
    \/ TidalFetchFails
    \/ TidalCompleted
    \/ TidalReturn
    \/ SectionFound
    \/ SectionLookupFails
    \/ MatchTrack
    \/ MaterializeEmpty
    \/ CreatePlaylist
    \/ CreatePlaylistFails
    \/ SetThumbnail

Spec == Init /\ [][Next]_vars

\* ------------------------------------------------------------------------
\* SpecMatch: find_best_match on one track and one candidate sequence
\* ------------------------------------------------------------------------
\* track strings as the adapters build them
TrackPool ==
    { FormatTrack(<<"a">>, <<"b">>), FormatTrack(<<"b">>, <<>>) }

\* the run variables of a thread that has not been started
RunIdle ==
    /\ playlist_source = "other"
    /\ items = <<>>
    /\ playlist_image_url = FALSE
    /\ total_number = 0
    /\ pending = {}
    /\ tracks = <<>>
    /\ fetch_failed = FALSE
    /\ idx = 0
    /\ plex_tracks = <<>>
    /\ not_found_tracks = <<>>
    /\ last_search = NoSearch
    /\ searches = 0
    /\ creates = 0
    /\ playlist = [created |-> FALSE, items |-> <<>>]
    /\ thumbnail = "none"
    /\ progress = <<>>
    /\ signals = <<>>
    /\ error_kind = "none"

InitMatch ==
    /\ pc = "find_best_match"
    /\ playlist_source = "other"
    /\ items = <<>>
    /\ playlist_image_url = FALSE
    /\ total_number = 0
    /\ pending = {}
    /\ tracks = <<>>
    /\ fetch_failed = FALSE
    /\ idx = 0
    /\ plex_tracks = <<>>
    /\ not_found_tracks = <<>>
    /\ last_search = NoSearch
    /\ searches = 0
    /\ creates = 0
    /\ playlist = [created |-> FALSE, items |-> <<>>]
    /\ thumbnail = "none"
    /\ progress = <<>>
    /\ signals = <<>>
    /\ error_kind = "none"
    /\ fbm_track \in TrackPool
    /\ fbm_cands \in SeqsUpTo(CandPool, MaxCands)
    /\ fbm_out = NoOut
    /\ local_file = <<>>
    /\ LocalIdle
    /\ ParseIdle
    /\ TokenIdle

\* find_best_match, lines 350-381, on the candidates the search returned
FindBestMatch ==
    /\ pc = "find_best_match"
    /\ fbm_out' = find_best_match(fbm_track, fbm_cands, FALSE)
    /\ pc' = "returned"
    /\ UNCHANGED <<playlist_source, items, total_number, playlist_image_url, pending,
                   tracks, fetch_failed, idx, plex_tracks, not_found_tracks,
                   last_search, searches, creates, playlist, thumbnail, progress,
                   signals, error_kind, fbm_track, fbm_cands, aux_vars>>

NextMatch == FindBestMatch

SpecMatch == InitMatch /\ [][NextMatch]_vars

\* ------------------------------------------------------------------------
\* Properties of a conversion run (Spec)
\* ------------------------------------------------------------------------
\* the track strings of the first k source records, unreadable ones left out
RECURSIVE SourceTexts(_)
SourceTexts(k) ==
    IF k = 0 THEN <<>>
    ELSE IF items[k].ok
         THEN Append(SourceTexts(k - 1), FormatTrack(items[k].title, items[k].artist))
         ELSE SourceTexts(k - 1)

Increasing(seq) ==
    \A m, n \in 1..Len(seq) : m < n => seq[m].pos < seq[n].pos

\* C1: the track list handed to matching, and the items of the created
\* playlist, are in the source playlist's order whatever the order in which
\* the fetch workers finish.
C1_SourceOrderKept ==
    /\ (pc \notin {"run", "tidal_pool"} /\ ~fetch_failed) =>
          [n \in 1..Len(tracks) |-> tracks[n].text] = SourceTexts(Len(items))
    /\ Increasing(playlist.items)

\* C2: a finished run has either reported success and created a playlist
\* with at least one track, or reported an error and created no playlist.
C2_TerminalStates ==
    pc = "done" =>
        \/ /\ signals = <<"finished">>
           /\ playlist.created
           /\ Len(playlist.items) >= 1
        \/ /\ signals = <<"error">>
           /\ ~playlist.created

\* a run that succeeded with two matched tracks, and so went through every
\* step that can raise
C2_Witness ==
    /\ pc = "done"
    /\ signals = <<"finished">>
    /\ Len(playlist.items) = 2

\* C3: when resolution ends with no matched track (all unmatched, or no
\* input track), the next step fails the run with the "no matches" error
\* and createPlaylist is not called.
C3_NoMatchesFails ==
    [][(pc = "match_loop" /\ idx = Len(tracks) /\ plex_tracks = <<>>) =>
          /\ pc' = "done"
          /\ error_kind' = "no_matches"
          /\ signals' = <<"error">>
          /\ creates' = 0
          /\ ~playlist'.created]_vars

\* a run with input tracks, all of them unmatched, that failed
C3_Witness ==
    /\ pc = "done"
    /\ error_kind = "no_matches"
    /\ Len(not_found_tracks) >= 1
    /\ Len(not_found_tracks) = Len(tracks)

\* C4: an exception while resolving one track does not fail the run: the
\* track is recorded as unmatched and no error is reported for it.
C4_MatchFailureTolerated ==
    last_search.outcome = "raised" =>
        /\ "error" \notin { signals[n] : n \in 1..Len(signals) }
        /\ \E n \in 1..Len(not_found_tracks) : not_found_tracks[n].pos = last_search.pos

\* C5: once the fetch stage has raised, the run is over with the error
\* signal; no library search and no createPlaylist call is ever made and no
\* track list is handed to matching.
C5_FetchFailureAborts ==
    fetch_failed =>
        /\ pc = "done"
        /\ signals = <<"error">>
        /\ error_kind = "fetch"
        /\ tracks = <<>>
        /\ idx = 0
        /\ searches = 0
        /\ creates = 0
        /\ ~playlist.created

\* a Deezer fetch that failed after tracks had been fetched
C5_Witness ==
    /\ fetch_failed
    /\ playlist_source = "deezer"
    /\ Len(progress) >= 1

\* C6: a failed thumbnail step leaves the run succeeded and the created
\* playlist with the matched tracks.
C6_ThumbnailBestEffort ==
    thumbnail = "failed" =>
        /\ pc = "done"
        /\ signals = <<"finished">>
        /\ error_kind = "none"
        /\ playlist = [created |-> TRUE, items |-> plex_tracks]
        /\ plex_tracks # <<>>

C6_Witness ==
    /\ thumbnail = "failed"
    /\ pc = "done"
    /\ Len(playlist.items) >= 1

\* C7: the progress values of a run never decrease, and 100 is the last
\* value, emitted after the fetch stage returned and the last track was
\* resolved.
C7_ProgressMonotone ==
    /\ \A m, n \in 1..Len(progress) : m <= n => progress[m] <= progress[n]
    /\ \A m \in 1..Len(progress) :
          progress[m] = 100 =>
              /\ pc \notin {"run", "tidal_pool"}
              /\ ~fetch_failed
              /\ idx >= 1
              /\ idx = Len(tracks)

\* both halves reported: fetch values up to 50, then match values up to 100
C7_Witness ==
    /\ Len(progress) = 4
    /\ progress[1] < 50
    /\ progress[2] = 50
    /\ progress[4] = 100

\* C10: a search that returns no candidate gives Unmatched with best score
\* 0 and no exception; the track joins the unmatched list and the loop goes
\* on to the next track.
C10_EmptySearchUnmatched ==
    [][(searches' = searches + 1 /\ last_search'.empty) =>
          /\ last_search'.outcome = "unmatched"
          /\ last_search'.best_score = 0
          /\ pc' = "match_loop"
          /\ idx' = idx + 1
          /\ signals' = signals
          /\ plex_tracks' = plex_tracks
          /\ not_found_tracks' = Append(not_found_tracks, tracks[idx + 1])]_vars

\* an empty search for a track that is not the last one
C10_Witness ==
    /\ last_search.empty
    /\ pc = "match_loop"
    /\ idx < Len(tracks)

\* ------------------------------------------------------------------------
\* Properties of find_best_match (SpecMatch)
\* ------------------------------------------------------------------------
FbmTitle == parse_track_info(fbm_track)[1]
FbmArtist == parse_track_info(fbm_track)[2]

\* combinedScore of the k-th candidate
CandScore(k) ==
    combined_score(title_score(FbmTitle, fbm_cands[k]), artist_score(FbmArtist, fbm_cands[k]))

IsMaxScore(k) == \A j \in 1..Len(fbm_cands) : CandScore(j) <= CandScore(k)

\* the first candidate, in gateway order, attaining the maximum
FirstMax ==
    CHOOSE k \in 1..Len(fbm_cands) :
        IsMaxScore(k) /\ \A j \in 1..(k - 1) : ~IsMaxScore(j)

LoopCompleted == pc = "returned" /\ fbm_out.loop_done

\* C8 as stated: after the loop over a non-empty candidate sequence the
\* tracked best is the first candidate attaining the maximum combinedScore.
C8_FirstMaxTracked ==
    (LoopCompleted /\ fbm_cands # <<>>) => fbm_out.best_match = FirstMax

\* C8 amended: the tracked best is the first candidate attaining the
\* maximum combinedScore when that maximum is above 0; when every candidate
\* scores 0 no candidate is tracked.
C8_FirstMaxTrackedAboveZero ==
    (LoopCompleted /\ fbm_cands # <<>>) =>
        /\ (CandScore(FirstMax) > 0 => /\ fbm_out.best_match = FirstMax
                                       /\ fbm_out.best_score = CandScore(FirstMax))
        /\ (CandScore(FirstMax) = 0 => fbm_out.best_match = 0)

\* two different candidates tie at a positive maximum
C8_Witness ==
    /\ LoopCompleted
    /\ Len(fbm_cands) >= 2
    /\ CandScore(1) > 0
    /\ IsMaxScore(1)
    /\ CandScore(2) = CandScore(1)
    /\ fbm_cands[1] # fbm_cands[2]

\* C9: find_best_match returns the best candidate exactly when the maximum
\* combinedScore is at least 70, and None when it is below 70.
C9_AcceptIffThreshold ==
    (LoopCompleted /\ fbm_cands # <<>>) =>
        /\ (CandScore(FirstMax) >= 7000 =>
               fbm_out.outcome = "matched" /\ fbm_out.match = FirstMax)
        /\ (CandScore(FirstMax) < 7000 => fbm_out.outcome = "unmatched")

\* C11: the combinedScore of a candidate is 0.7*titleScore + 0.3*artistScore
\* up to the rounding of the double arithmetic (one unit of the scale) and
\* lies between 0 and 100; stated of the score find_best_match tracks as
\* best_score.
C11_WeightedScore ==
    LoopCompleted =>
        /\ fbm_out.best_score >= 0
        /\ fbm_out.best_score <= 10000
        /\ \/ fbm_out.best_match = 0 /\ fbm_out.best_score = 0
           \/ /\ fbm_out.best_match \in 1..Len(fbm_cands)
              /\ LET c == fbm_cands[fbm_out.best_match]
                     exact == 10 * (7 * title_score(FbmTitle, c)
                                    + 3 * artist_score(FbmArtist, c))
                 IN  /\ fbm_out.best_score - exact <= 1
                     /\ exact - fbm_out.best_score <= 1

\* a tracked candidate with titleScore 97 and artistScore 100: 97.9 up to
\* rounding
C11_Witness ==
    /\ LoopCompleted
    /\ fbm_out.best_match >= 1
    /\ fbm_out.best_score = 9789

\* ------------------------------------------------------------------------
\* SpecParse: parse_track_info on one track string
\* ------------------------------------------------------------------------
Chars == {"a", " ", "-"}

\* no leading and no trailing blank
IsStripped(s) == s = <<>> \/ (s[1] # " " /\ s[Len(s)] # " ")

\* track lines as get_local_tracks yields them: stripped
TrackLines == { s \in SeqsUpTo(Chars, MaxLine) : IsStripped(s) }

\* title and artist fields of provider records
RecTitles == { <<>>, <<"a">>, FormatTrack(<<"a">>, <<"a">>) }
RecArtists == { <<>>, <<"a">>, FormatTrack(<<"a">>, <<"a">>) }

InitParse ==
    /\ pc = "parse_track_info"
    /\ RunIdle
    /\ FbmIdle
    /\ local_file = <<>>
    /\ LocalIdle
    /\ TokenIdle
    /\ parsed = NoParse
    /\ \/ rec_in = NoRec /\ track_in \in TrackLines
       \/ \E t \in RecTitles, a \in RecArtists :
            /\ rec_in = [provider |-> TRUE, title |-> t, artist |-> a]
            /\ track_in = FormatTrack(t, a)

\* parse_track_info, lines 383-388
ParseTrackInfo ==
    /\ pc = "parse_track_info"
    /\ LET p == parse_track_info(track_in) IN
       parsed' = [done |-> TRUE, title |-> p[1], artist |-> p[2]]
    /\ pc' = "parsed"
    /\ UNCHANGED <<playlist_source, items, total_number, playlist_image_url, pending,
                   tracks, fetch_failed, idx, plex_tracks, not_found_tracks,
                   last_search, searches, creates, playlist, thumbnail, progress,
                   signals, error_kind, fbm_vars, local_file, local_tracks, track_in,
                   rec_in, access_token, token_expiration, now, token_call>>

NextParse == ParseTrackInfo

SpecParse == InitParse /\ [][NextParse]_vars

HasSep(s) == \E k \in 1..Len(s) : SepAt(s, k)

AllBlank(s) == \A i \in 1..Len(s) : s[i] = " "

\* t is s without its leading and trailing blanks
StrippedOf(t, s) ==
    /\ IsStripped(t)
    /\ \E i \in 0..Len(s) :
         /\ i + Len(t) <= Len(s)
         /\ AllBlank(SubSeq(s, 1, i))
         /\ SubSeq(s, i + 1, i + Len(t)) = t
         /\ AllBlank(SubSeq(s, i + Len(t) + 1, Len(s)))

\* C12 as stated: the title is the text before the first ' - ' and the
\* artist everything after it; a line without ' - ' is the title, with an
\* empty artist.
C12_FirstSplit ==
    (parsed.done /\ ~rec_in.provider) =>
        IF HasSep(track_in)
        THEN \E k \in 1..Len(track_in) :
               /\ SepAt(track_in, k)
               /\ \A j \in 1..(k - 1) : ~SepAt(track_in, j)
               /\ parsed.title = SubSeq(track_in, 1, k - 1)
               /\ parsed.artist = SubSeq(track_in, k + 3, Len(track_in))
        ELSE parsed.title = track_in /\ parsed.artist = <<>>

\* C12 amended: the title is the text before the first ' - ' and the artist
\* everything after it, each without its leading and trailing blanks; a line
\* without ' - ' gives the line without its leading and trailing blanks as
\* title and an empty artist.
C12_FirstSplitStripped ==
    parsed.done =>
        IF HasSep(track_in)
        THEN \E k \in 1..Len(track_in) :
               /\ SepAt(track_in, k)
               /\ \A j \in 1..(k - 1) : ~SepAt(track_in, j)
               /\ StrippedOf(parsed.title, SubSeq(track_in, 1, k - 1))
               /\ StrippedOf(parsed.artist, SubSeq(track_in, k + 3, Len(track_in)))
        ELSE StrippedOf(parsed.title, track_in) /\ parsed.artist = <<>>

\* the line 'a - a - a': title 'a', artist 'a - a'
C12_Witness ==
    /\ parsed.done
    /\ track_in = <<"a", " ", "-", " ", "a", " ", "-", " ", "a">>
    /\ parsed.title = <<"a">>
    /\ parsed.artist = <<"a", " ", "-", " ", "a">>

\* ------------------------------------------------------------------------
\* SpecLocal: get_local_tracks on one playlist file
\* ------------------------------------------------------------------------
\* lines of a playlist file, without the line terminator
LinePool ==
    { <<>>, <<" ">>, <<"a">>, <<"a", " ">>, <<" ", "a">>, <<"#">>, <<"#", "a">>,
      <<" ", "#">>, <<"a", "#">> }

\* line 301 with the comment test made on the stripped line
keep_line_stripped(line) == strip(line) # <<>> /\ Head(strip(line)) # "#"

\* the filter of line 301: line.strip() and not line.startswith('#')
keep_line(line) == strip(line) # <<>> /\ ~(line # <<>> /\ Head(line) = "#")

\* get_local_tracks, lines 299-302
get_local_tracks(content) ==
    LET kept == SelectSeq(content, keep_line)
    IN  [n \in 1..Len(kept) |-> strip(kept[n])]

InitLocal ==
    /\ pc = "get_local_tracks"
    /\ RunIdle
    /\ FbmIdle
    /\ ParseIdle
    /\ TokenIdle
    /\ local_file \in SeqsUpTo(LinePool, MaxFileLines)
    /\ local_tracks = NoTracks

\* get_local_tracks returns the track list
GetLocalTracks ==
    /\ pc = "get_local_tracks"
    /\ local_tracks' = [done |-> TRUE, raised |-> FALSE,
                        tracks |-> get_local_tracks(local_file)]
    /\ pc' = "returned"
    /\ UNCHANGED <<playlist_source, items, total_number, playlist_image_url, pending,
                   tracks, fetch_failed, idx, plex_tracks, not_found_tracks,
                   last_search, searches, creates, playlist, thumbnail, progress,
                   signals, error_kind, fbm_vars, local_file, track_in, rec_in,
                   parsed, access_token, token_expiration, now, token_call>>

\* get_local_tracks, lines 303-304: the file cannot be opened or decoded
GetLocalTracksFails ==
    /\ pc = "get_local_tracks"
    /\ local_tracks' = [done |-> TRUE, raised |-> TRUE, tracks |-> <<>>]
    /\ pc' = "returned"
    /\ UNCHANGED <<playlist_source, items, total_number, playlist_image_url, pending,
                   tracks, fetch_failed, idx, plex_tracks, not_found_tracks,
                   last_search, searches, creates, playlist, thumbnail, progress,
                   signals, error_kind, fbm_vars, local_file, track_in, rec_in,
                   parsed, access_token, token_expiration, now, token_call>>

NextLocal ==
    \/ GetLocalTracks
    \/ GetLocalTracksFails

SpecLocal == InitLocal /\ [][NextLocal]_vars

IsComment(line) == line # <<>> /\ line[1] = "#"

NonEmptyNonComment(line) == line # <<>> /\ ~IsComment(line)

\* positions of the file's lines that are not blank and not comments
KeptLines == { i \in 1..Len(local_file) :
                 ~AllBlank(local_file[i]) /\ ~IsComment(local_file[i]) }

\* C13 as stated: the records are exactly the file's lines that are not
\* empty and do not begin with '#', in file order.
C13_RecordsAreLines ==
    (local_tracks.done /\ ~local_tracks.raised) =>
        local_tracks.tracks = SelectSeq(local_file, NonEmptyNonComment)

\* C13 amended: the records are, in file order and one per line, the lines
\* that are not blank (empty or whitespace only) and do not begin with '#',
\* each without its leading and trailing whitespace.
C13_RecordsAreStrippedLines ==
    (local_tracks.done /\ ~local_tracks.raised) =>
        /\ Len(local_tracks.tracks) = Cardinality(KeptLines)
        /\ \E f \in [1..Len(local_tracks.tracks) -> KeptLines] :
             /\ \A m, n \in 1..Len(local_tracks.tracks) : m < n => f[m] < f[n]
             /\ \A n \in 1..Len(local_tracks.tracks) :
                  StrippedOf(local_tracks.tracks[n], local_file[f[n]])

\* a file with a track line, a comment line and an empty line
C13_Witness ==
    /\ local_tracks.done
    /\ ~local_tracks.raised
    /\ Len(local_file) = 3
    /\ Len(local_tracks.tracks) = 1
    /\ \E i \in 1..3 : local_file[i] = <<>>
    /\ \E i \in 1..3 : IsComment(local_file[i])

\* C14: a run whose source is a local playlist file with a "title - artist"
\* line, a title-only line, a comment line and an empty line ends Succeeded
\* with 2 canonical tracks, one matched, one unmatched, and a created
\* playlist holding the one match.
C14_LocalFileRunSucceeds ==
    (pc = "done" /\ playlist_source = "other" /\ local_file = ExampleFile) =>
        /\ signals = <<"finished">>
        /\ Len(tracks) = 2
        /\ Len(plex_tracks) = 1
        /\ Len(not_found_tracks) = 1
        /\ playlist.created
        /\ Len(playlist.items) = 1

\* the title handed to searchTracks by the latest find_best_match call of the run
SearchedTitle == parse_track_info(TrackOf(last_search.pos).text)[1]

\* C15: every track that reaches the library search has a non-empty title;
\* a record that cannot yield one is dropped before matching.
C15_SearchedTitleNonEmpty ==
    last_search.pos # 0 => SearchedTitle # <<>>

\* C16: for a provider record with title T and artist A, the track used for
\* matching has title exactly T and artist exactly A, also when T contains
\* the separator.
C16_ProviderProjection ==
    (parsed.done /\ rec_in.provider) =>
        /\ parsed.title = rec_in.title
        /\ parsed.artist = rec_in.artist

\* the index in tracks of the track that came from source position p
IndexIn(p) == CHOOSE i \in 1..Len(tracks) : tracks[i].pos = p

\* seq lists tracks of the input list, each once and in the input's order
InInputOrder(seq) ==
    /\ \A n \in 1..Len(seq) : \E i \in 1..idx : tracks[i].pos = seq[n].pos
    /\ \A m, n \in 1..Len(seq) : m < n => IndexIn(seq[m].pos) < IndexIn(seq[n].pos)

\* C17: of the track list handed to materialization every resolved track is
\* in exactly one of the matched and the unmatched list, and all of them
\* are once createPlaylist is called; the items passed to createPlaylist are
\* the matches in input order; the unmatched tracks are kept in input order.
C17_MatchedUnmatchedPartition ==
    /\ Len(plex_tracks) + Len(not_found_tracks) = idx
    /\ \A i \in 1..idx :
         LET inMatched == \E n \in 1..Len(plex_tracks) : plex_tracks[n].pos = tracks[i].pos
             inUnmatched == \E n \in 1..Len(not_found_tracks) :
                               not_found_tracks[n] = tracks[i]
         IN  inMatched # inUnmatched
    /\ InInputOrder(plex_tracks)
    /\ InInputOrder(not_found_tracks)
    /\ \A n \in 1..Len(plex_tracks) : plex_tracks[n].match >= 1
    /\ creates >= 1 => idx = Len(tracks)
    /\ playlist.created => playlist.items = plex_tracks
    /\ (pc = "done" /\ signals = <<"finished">>) =>
          /\ playlist.created
          /\ Len(playlist.items) + Len(not_found_tracks) = Len(tracks)

\* a successful run of two tracks whose first track was unmatched and whose
\* second track was matched
C17_Witness ==
    /\ pc = "done"
    /\ signals = <<"finished">>
    /\ Len(tracks) = 2
    /\ not_found_tracks = <<tracks[1]>>
    /\ Len(playlist.items) = 1
    /\ playlist.items[1].pos = tracks[2].pos

\* C18: createPlaylist is called at most once in a run, and only when
\* every input track has been resolved; no library search is issued once it
\* has been called.
C18_SingleWriteAfterResolve ==
    /\ [](creates <= 1)
    /\ [](creates >= 1 => idx = Len(tracks) /\ pc \in {"thumbnail", "done"})
    /\ [][creates' # creates =>
             creates = 0 /\ creates' = 1 /\ idx = Len(tracks) /\ searches' = searches]_vars
    /\ [][creates >= 1 => searches' = searches]_vars

\* a run that searched for two tracks and then created the playlist
C18_Witness ==
    /\ creates = 1
    /\ searches = 2
    /\ playlist.created
    /\ pc = "done"

\* artistScore of the k-th candidate by the rule of the claim
ExpectedArtistScore(k) ==
    LET c == fbm_cands[k]
    IN  IF FbmArtist # <<>> /\ c.originalTitle THEN c.artistSim
        ELSE IF FbmArtist # <<>> /\ c.artist = "some" THEN c.artistSim
        ELSE 0

ExpectedScore(k) ==
    combined_score(title_score(FbmTitle, fbm_cands[k]), ExpectedArtistScore(k))

\* C19: artistScore of a candidate is the similarity of the track artist to
\* the candidate's originalTitle when the track artist is non-empty and
\* that field is populated, else the similarity to the candidate's artist
\* name when the track artist is non-empty and the candidate has an artist,
\* else 0; seen through the score the completed loop tracks.
C19_ArtistScoreRule ==
    LoopCompleted =>
        /\ \A k \in 1..Len(fbm_cands) : ExpectedScore(k) <= fbm_out.best_score
        /\ fbm_out.best_match >= 1 => fbm_out.best_score = ExpectedScore(fbm_out.best_match)
        /\ fbm_out.best_match = 0 => fbm_out.best_score = 0

\* a track with an artist whose best candidate has originalTitle populated
\* and no artist, next to a candidate that has neither field
C19_Witness ==
    /\ LoopCompleted
    /\ Len(fbm_cands) = 2
    /\ FbmArtist # <<>>
    /\ fbm_cands[1].originalTitle /\ fbm_cands[1].artist = "none"
    /\ ~fbm_cands[2].originalTitle /\ fbm_cands[2].artist = "none"
    /\ fbm_out.best_match = 1
    /\ fbm_out.best_score = 10000

\* a track without an artist scored against a candidate that has an artist
C19_WitnessEmptyArtist ==
    /\ LoopCompleted
    /\ FbmArtist = <<>>
    /\ fbm_cands # <<>>
    /\ fbm_cands[1].artist = "some" /\ fbm_cands[1].artistSim = 100
    /\ fbm_out.best_match = 1
    /\ fbm_out.best_score = 7000

\* ------------------------------------------------------------------------
\* SpecToken: SpotifyAnonymousAuth.get_token on one auth object over time
\* ------------------------------------------------------------------------
\* access tokens a response can carry; 0 stands for None
Tokens == {1, 2}

\* expiry times a response can declare, in seconds
Expiries == 0..(MaxTime + 1)

\* line 102: the cached token is served
cache_valid == access_token # 0 /\ now < token_expiration

\* __init__, lines 97-99
InitToken ==
    /\ pc = "get_token"
    /\ RunIdle
    /\ FbmIdle
    /\ local_file = <<>>
    /\ LocalIdle
    /\ ParseIdle
    /\ TokenIdle

token_rest == <<pc, run_vars, fbm_vars, local_file, local_tracks, track_in, rec_in, parsed>>

\* time.time() advances between two calls
Tick ==
    /\ now < MaxTime
    /\ now' = now + 1
    /\ UNCHANGED <<access_token, token_expiration, token_call, token_rest>>

\* lines 102-103
GetTokenCached ==
    /\ cache_valid
    /\ token_call' = [outcome |-> "cached", requested |-> FALSE,
                      returned |-> access_token, expires |-> token_expiration]
    /\ UNCHANGED <<access_token, token_expiration, now, token_rest>>

\* lines 105-122: the request succeeds and the response carries both fields
GetTokenRequestOk ==
    /\ ~cache_valid
    /\ \E t \in Tokens, e \in Expiries :
        /\ access_token' = t
        /\ token_expiration' = e
        /\ token_call' = [outcome |-> "ok", requested |-> TRUE, returned |-> t,
                          expires |-> e]
    /\ UNCHANGED <<now, token_rest>>

\* lines 105-119 raise (request, HTTP status, JSON body or a missing
\* 'accessToken'); lines 123-125 log and re-raise
GetTokenRequestFails ==
    /\ ~cache_valid
    /\ token_call' = [outcome |-> "raised", requested |-> TRUE, returned |-> 0,
                      expires |-> 0]
    /\ UNCHANGED <<access_token, token_expiration, now, token_rest>>

\* line 119 has stored the token and line 120 raises: the response has no
\* usable 'accessTokenExpirationTimestampMs'; lines 123-125 log and re-raise
GetTokenExpiryMissing ==
    /\ ~cache_valid
    /\ \E t \in Tokens :
        /\ access_token' = t
        /\ token_call' = [outcome |-> "raised", requested |-> TRUE, returned |-> 0,
                          expires |-> 0]
    /\ UNCHANGED <<token_expiration, now, token_rest>>

NextToken ==
    \/ Tick
    \/ GetTokenCached
    \/ GetTokenRequestOk
    \/ GetTokenRequestFails
    \/ GetTokenExpiryMissing

SpecToken == InitToken /\ [][NextToken]_vars

\* C20: get_token issues a request iff no token is cached or the clock is at
\* or past the cached expiry, and otherwise returns the cached token; a
\* successful request leaves the new token and its expiry in the cache; a
\* failed request raises and leaves the cached token and expiry unchanged.
C20_TokenCache ==
    [][now' = now =>
         /\ token_call'.requested = (access_token = 0 \/ now >= token_expiration)
         /\ token_call'.outcome = "cached" =>
               /\ token_call'.returned = access_token
               /\ UNCHANGED <<access_token, token_expiration>>
         /\ token_call'.outcome = "ok" =>
               /\ access_token' = token_call'.returned
               /\ access_token' # 0
               /\ token_expiration' = token_call'.expires
         /\ token_call'.outcome = "raised" =>
               UNCHANGED <<access_token, token_expiration>>]_vars

\* ------------------------------------------------------------------------
\* Signals of a run (Spec)
\* ------------------------------------------------------------------------
\* a record process_tidal_track could not read has been yielded by the pool:
\* its exception was logged at lines 205-207
TidalTrackSkipped ==
    /\ playlist_source = "tidal"
    /\ \E j \in BadItems : j \notin pending
    /\ pc # "run"
    /\ ~fetch_failed

\* one terminal signal, emitted as the last event of the run; finished only
\* after a successful createPlaylist
TerminalSignalOnce ==
    /\ [](Len(signals) <= 1)
    /\ [](signals # <<>> <=> pc = "done")
    /\ [](signals # <<>> => signals[1] \in {"finished", "error"})
    /\ [](signals = <<"finished">> =>
             playlist.created /\ creates = 1 /\ error_kind = "none")
    /\ [][signals # <<>> => progress' = progress /\ signals' = signals]_vars
    /\ [][signals' # signals => pc' = "done" /\ Len(signals') = 1]_vars

\* C21 as stated: a terminated run has emitted exactly one terminal signal,
\* no progress update follows it, finished comes only after a successful
\* createPlaylist, and every exception raised in fetch, match or materialize
\* ends the run with the error signal.
C21_EveryExceptionSignalled ==
    /\ TerminalSignalOnce
    /\ [](error_kind # "none" => signals = <<"error">>)
    /\ []((thumbnail = "failed" /\ pc = "done") => signals = <<"error">>)
    /\ []((TidalTrackSkipped /\ pc = "done") => signals = <<"error">>)

\* C21 amended: as stated, for every exception that leaves its stage (the
\* fetch function, find_best_match, the section lookup, createPlaylist, the
\* no-matches error); the exceptions of the thumbnail step and of
\* process_tidal_track are logged where they occur and do not end the run.
C21_PropagatedExceptionSignalled ==
    /\ TerminalSignalOnce
    /\ [](error_kind # "none" => signals = <<"error">>)
    /\ [][error_kind' # error_kind =>
             pc' = "done" /\ signals' = <<"error">>]_vars
    /\ [][thumbnail' = "failed" => signals' = <<"finished">>]_vars

\* a run ended by an exception of find_best_match after it had reported
\* progress for an earlier track
C21_Witness ==
    /\ pc = "done"
    /\ signals = <<"error">>
    /\ error_kind = "match"
    /\ idx = 1
    /\ Len(progress) >= 2

\* ------------------------------------------------------------------------
\* Candidates lacking fields and tracks without an artist (SpecMatch)
\* ------------------------------------------------------------------------
\* no artist() lookup of the candidates raises: a candidate at most lacks
\* its title, its originalTitle or its artist
FieldsOnlyMissing == \A k \in 1..Len(fbm_cands) : fbm_cands[k].artist # "error"

\* C22: for candidates that may lack a title, an originalTitle and an
\* artist, find_best_match returns a decision and does not raise; an
\* accepted best candidate with neither originalTitle nor artist is returned
\* as the match.
C22_NoRaiseOnMissingFields ==
    (pc = "returned" /\ FieldsOnlyMissing) =>
        /\ fbm_out.outcome \in {"matched", "unmatched"}
        /\ (fbm_out.best_score >= 7000 =>
               fbm_out.outcome = "matched" /\ fbm_out.match = fbm_out.best_match)

\* candidates whose titleScore against the track's title is exactly 100
PerfectTitles == { k \in 1..Len(fbm_cands) : title_score(FbmTitle, fbm_cands[k]) = 100 }

\* C23: for a track with an empty artist the combinedScore of every
\* candidate is 0.7*titleScore, at most 70; the track is Matched iff some
\* candidate has titleScore exactly 100, and the match is the first such
\* candidate.
C23_EmptyArtistNeedsPerfectTitle ==
    (pc = "returned" /\ FbmArtist = <<>> /\ FieldsOnlyMissing) =>
        /\ fbm_out.best_score <= 7000
        /\ \A k \in 1..Len(fbm_cands) :
              CandScore(k) - 70 * title_score(FbmTitle, fbm_cands[k]) \in {-1, 0}
        /\ (fbm_out.outcome = "matched") = (PerfectTitles # {})
        /\ fbm_out.outcome = "matched" =>
              /\ fbm_out.match \in PerfectTitles
              /\ \A k \in PerfectTitles : fbm_out.match <= k

====
